---- MODULE Spec2Model ----
(***************************************************************************)
(* A model of complex_calc.js: the tokenizer, the shunting-yard parser,    *)
(* the AST printer, the evaluator over complex numbers and the randomized  *)
(* equivalence checker.                                                    *)
(*                                                                         *)
(* Text is modelled as sequences of one-character strings, so that the     *)
(* tokenizer's regular expression, the printer's concatenation and the     *)
(* literal parser are computed character by character.                     *)
(*                                                                         *)
(* Numbers are IEEE doubles in the program.  The model keeps a number as   *)
(* an exact fraction n/d in one of two magnitude bands: band 0 holds       *)
(* ordinary magnitudes, band -1 holds "tiny" magnitudes (n/d * 1e-200).    *)
(* A product of two tiny numbers underflows to 0 and a tiny number is      *)
(* absorbed when added to a nonzero ordinary one, as in double arithmetic. *)
(* Rounding of the mantissa is not modelled.  Operations whose result is   *)
(* irrational (the polar branch of pow, most of sqrt and root) yield the   *)
(* status "opaque"; Evaluate acts only on evaluations that stay exact.     *)
(***************************************************************************)
EXTENDS Integers, Sequences, FiniteSets, TLC

VARIABLES
    input,      \* the expression text handed to parseToAST
    pc,         \* position of the run: "start", "scan", "build", "parsed", ...
    tokens,     \* parseToAST: const tokens
    i,          \* parseToAST: the loop index (1-based here)
    output,     \* parseToAST: const output (the RPN queue)
    ops,        \* parseToAST: const ops (the operator stack)
    prev,       \* parseToAST: let prev
    err,        \* the error raised ("" while none)
    errAt,      \* index of the token at which the parser raised (0: none)
    ast,        \* the AST returned by parseToAST
    first,      \* the AST of the first parse, kept across astToLisp + reparse
    env,        \* the environment of the evaluation
    value,      \* the outcome of evaluateAST
    ast1,       \* expressionsEqual: first argument
    ast2,       \* expressionsEqual: second argument
    tries,      \* expressionsEqual: parameter tries
    t,          \* expressionsEqual: loop counter
    log,        \* expressionsEqual: outcome of each round run so far
    eq          \* expressionsEqual: "running", "true", "false" or "raised"
                \* ("idle" while it is not called)

vars == <<input, pc, tokens, i, output, ops, prev, err, errAt, ast, first,
          env, value, ast1, ast2, tries, t, log, eq>>

parserVars == <<tokens, i, output, ops, prev, err, errAt, ast>>
eqVars == <<ast1, ast2, tries, t, log, eq>>

None == <<>>

-----------------------------------------------------------------------------
(* Characters                                                              *)

DigitSeq == <<"0", "1", "2", "3", "4", "5", "6", "7", "8", "9">>

LetterChars ==
    {"a", "b", "c", "d", "e", "f", "g", "h", "i", "j", "k", "l", "m",
     "n", "o", "p", "q", "r", "s", "t", "u", "v", "w", "x", "y", "z",
     "A", "B", "C", "D", "E", "F", "G", "H", "I", "J", "K", "L", "M",
     "N", "O", "P", "Q", "R", "S", "T", "U", "V", "W", "X", "Y", "Z"}

\* [0-9] and \d
IsDigit(c) == \E v \in 1..10 : DigitSeq[v] = c

DigitVal(c) == (CHOOSE v \in 1..10 : DigitSeq[v] = c) - 1

\* [A-Za-z_]
IsIdentStart(c) == c \in LetterChars \/ c = "_"

\* \w
IsWordChar(c) == IsIdentStart(c) \/ IsDigit(c)

\* \s (the ASCII members)
IsSpace(c) == c \in {" ", "\t", "\n", "\r"}

\* [()+\-*/,]
IsPunct(c) == c \in {"(", ")", "+", "-", "*", "/", ","}

RECURSIVE Flatten(_)
\* tokens.join('')
Flatten(ts) == IF ts = <<>> THEN <<>> ELSE Head(ts) \o Flatten(Tail(ts))

-----------------------------------------------------------------------------
(* Tokenizer: TOKEN_REGEX and tokenize                                     *)

RECURSIVE SkipSpace(_, _)
\* \s* from position p: the first position that holds no whitespace
SkipSpace(s, p) ==
    IF p <= Len(s) /\ IsSpace(s[p]) THEN SkipSpace(s, p + 1) ELSE p

RECURSIVE DigitRun(_, _)
\* the number of digits starting at p (greedy [0-9]*)
DigitRun(s, p) ==
    IF p <= Len(s) /\ IsDigit(s[p]) THEN 1 + DigitRun(s, p + 1) ELSE 0

RECURSIVE WordRun(_, _)
\* the number of word characters starting at p (greedy \w*)
WordRun(s, p) ==
    IF p <= Len(s) /\ IsWordChar(s[p]) THEN 1 + WordRun(s, p + 1) ELSE 0

\* [0-9]*\.?[0-9]+ at p: the position after the match, 0 when it fails.
\* With "12." the engine backtracks to the digits alone; with "." it fails.
MantissaEnd(s, p) ==
    LET n1 == DigitRun(s, p)
        dot == p + n1
        hasDot == dot <= Len(s) /\ s[dot] = "."
        n2 == IF hasDot THEN DigitRun(s, dot + 1) ELSE 0
    IN  IF hasDot /\ n2 >= 1 THEN dot + 1 + n2
        ELSE IF n1 >= 1 THEN dot
        ELSE 0

\* (?:e[+-]?\d+)? at p: the position after the optional exponent
ExponentEnd(s, p) ==
    IF p <= Len(s) /\ s[p] = "e"
    THEN LET q == IF p + 1 <= Len(s) /\ s[p + 1] \in {"+", "-"}
                  THEN p + 2 ELSE p + 1
             n == DigitRun(s, q)
         IN  IF n >= 1 THEN q + n ELSE p
    ELSE p

\* i? at p
ImagEnd(s, p) == IF p <= Len(s) /\ s[p] = "i" THEN p + 1 ELSE p

\* the number alternative of TOKEN_REGEX
NumberEnd(s, p) ==
    LET m == MantissaEnd(s, p)
    IN  IF m = 0 THEN 0 ELSE ImagEnd(s, ExponentEnd(s, m))

\* A variant that lets the decimal point stand without a following digit.
MatchEndDotAlone(s, p) ==
    IF p > Len(s) THEN 0
    ELSE IF NumberEnd(s, p) # 0 THEN NumberEnd(s, p)
    ELSE IF s[p] = "." THEN p + 1
    ELSE IF IsIdentStart(s[p]) THEN p + WordRun(s, p)
    ELSE IF s[p] = "*" /\ p + 1 <= Len(s) /\ s[p + 1] = "*" THEN p + 2
    ELSE IF s[p] = "^" THEN p + 1
    ELSE IF IsPunct(s[p]) THEN p + 1
    ELSE 0

\* The capture group of TOKEN_REGEX at p (whitespace already skipped):
\* the position after the token, 0 when no alternative matches.
MatchEnd(s, p) ==
    IF p > Len(s) THEN 0
    ELSE IF NumberEnd(s, p) # 0 THEN NumberEnd(s, p)
    ELSE IF IsIdentStart(s[p]) THEN p + WordRun(s, p)
    ELSE IF s[p] = "*" /\ p + 1 <= Len(s) /\ s[p + 1] = "*" THEN p + 2
    ELSE IF s[p] = "^" THEN p + 1
    ELSE IF IsPunct(s[p]) THEN p + 1
    ELSE 0

RECURSIVE TokenLoop(_, _, _)
\* while((m = TOKEN_REGEX.exec(input)) !== null) tokens.push(m[1])
TokenLoop(s, p, acc) ==
    LET q == SkipSpace(s, p)
        e == MatchEnd(s, q)
    IN  IF e = 0 THEN acc
        ELSE TokenLoop(s, e, Append(acc, SubSeq(s, q, e - 1)))

\* input.replace(/\s+/g, '')
Cleaned(s) == SelectSeq(s, LAMBDA c : ~IsSpace(c))

\* tokenize(input): the tokens, or LexicalError when they do not cover the input
tokenize(s) ==
    LET toks == TokenLoop(s, 1, <<>>)
    IN  IF Flatten(toks) # Cleaned(s)
        THEN [ok |-> FALSE, tokens |-> <<>>]
        ELSE [ok |-> TRUE, tokens |-> toks]

-----------------------------------------------------------------------------
(* Numbers: a fraction n/d (d > 0, lowest terms) in band k; zero is band 0 *)

RECURSIVE GCD(_, _)
GCD(a, b) == IF b = 0 THEN a ELSE GCD(b, a % b)

Abs(x) == IF x < 0 THEN -x ELSE x

RECURSIVE Pow10(_)
Pow10(k) == IF k = 0 THEN 1 ELSE 10 * Pow10(k - 1)

Zero == [n |-> 0, d |-> 1, k |-> 0]

\* the largest numerator and denominator the model computes with exactly
Limit == 10000

\* a value outside the model's exact range; it stays so through every operation
OutOfRange == [n |-> 1, d |-> 1, k |-> 1]

IsOutOfRange(x) == x.k = 1

Num(n, d, k) ==
    IF n = 0 THEN Zero
    ELSE LET g == GCD(Abs(n), d)
         IN  IF Abs(n) \div g > Limit \/ d \div g > Limit \/ k > 0
             THEN OutOfRange
             ELSE [n |-> n \div g, d |-> d \div g, k |-> k]

Whole(n) == Num(n, 1, 0)

NNeg(x) == [x EXCEPT !.n = -x.n]

NAbs(x) == [x EXCEPT !.n = Abs(x.n)]

\* x + y in doubles: a tiny term is absorbed by a nonzero ordinary one
NAdd(x, y) ==
    IF IsOutOfRange(x) \/ IsOutOfRange(y) THEN OutOfRange
    ELSE IF x.n = 0 THEN y
    ELSE IF y.n = 0 THEN x
    ELSE IF x.k > y.k THEN x
    ELSE IF y.k > x.k THEN y
    ELSE Num(x.n * y.d + y.n * x.d, x.d * y.d, x.k)

NSub(x, y) == NAdd(x, NNeg(y))

\* x * y in doubles: tiny * tiny underflows to 0
NMul(x, y) ==
    IF IsOutOfRange(x) \/ IsOutOfRange(y) THEN OutOfRange
    ELSE IF x.n = 0 \/ y.n = 0 THEN Zero
    ELSE IF x.k + y.k < -1 THEN Zero
    ELSE Num(x.n * y.n, x.d * y.d, x.k + y.k)

\* x / y for y # 0 (every denominator the program divides by is a nonzero
\* sum of squares, hence of band 0)
NDiv(x, y) ==
    IF IsOutOfRange(x) \/ IsOutOfRange(y) THEN OutOfRange
    ELSE IF x.n = 0 THEN Zero
    ELSE Num((IF y.n < 0 THEN -1 ELSE 1) * x.n * y.d, x.d * Abs(y.n), x.k - y.k)

\* Number.isInteger(x)
NIsInteger(x) == x.n = 0 \/ (x.k = 0 /\ x.d = 1)

\* Math.abs(x) below the thresholds 1e-14 and 1e-12: no nonzero ordinary
\* fraction of the model is that small, every tiny one is
NBelowEps(x) == x.n = 0 \/ x.k < 0

\* Math.round(x)
NRound(x) ==
    IF x.n = 0 \/ x.k < 0 THEN 0 ELSE (2 * x.n + x.d) \div (2 * x.d)

IsSquare(m) == \E r \in 0..Limit : r * r = m

ISqrt(m) == CHOOSE r \in 0..Limit : r * r = m

\* x >= 0 has an exact square root in the model's numbers
NHasSqrt(x) == x.n = 0 \/ (x.n > 0 /\ x.k = 0 /\ IsSquare(x.n) /\ IsSquare(x.d))

NSqrt(x) == IF x.n = 0 THEN Zero ELSE Num(ISqrt(x.n), ISqrt(x.d), 0)

-----------------------------------------------------------------------------
(* class Complex                                                           *)

Complex(re, im) == [re |-> re, im |-> im]

COne == Complex(Whole(1), Zero)

\* outcomes of an operation that can throw or leave the exact numbers
Ok(v) == [st |-> "ok", v |-> v, kind |-> ""]
Raise(kind) == [st |-> "err", v |-> None, kind |-> kind]
Opaque == [st |-> "opaque", v |-> None, kind |-> ""]

add(a, b) == Complex(NAdd(a.re, b.re), NAdd(a.im, b.im))

sub(a, b) == Complex(NSub(a.re, b.re), NSub(a.im, b.im))

mul(a, b) ==
    Complex(NSub(NMul(a.re, b.re), NMul(a.im, b.im)),
            NAdd(NMul(a.re, b.im), NMul(a.im, b.re)))

\* const denom = b.re*b.re + b.im*b.im
denomOf(b) == NAdd(NMul(b.re, b.re), NMul(b.im, b.im))

\* div(b): throws when denom === 0
div(a, b) ==
    LET denom == denomOf(b)
    IN  IF denom.n = 0 THEN Raise("DivisionByZero")
        ELSE Ok(Complex(
                NDiv(NAdd(NMul(a.re, b.re), NMul(a.im, b.im)), denom),
                NDiv(NSub(NMul(a.im, b.re), NMul(a.re, b.im)), denom)))

conj(a) == Complex(a.re, NNeg(a.im))

neg(a) == Complex(NNeg(a.re), NNeg(a.im))

\* Math.abs(x) < tol for the tolerances of eq (1e-8, and 1e-7 from
\* expressionsEqual): they too lie between the model's two bands
BelowTol(x) == NBelowEps(x)

\* A variant of eq that compares the real parts only.
eqRealOnly(a, b) == BelowTol(NSub(a.re, b.re))

\* eq(b, tol)
eq_(a, b) == BelowTol(NSub(a.re, b.re)) /\ BelowTol(NSub(a.im, b.im))

\* the largest exponent whose multiplication loop the model runs
MaxExponent == 12

RECURSIVE PowLoop(_, _)
\* for(let i=0;i<n;i++) res = res.mul(base)
PowLoop(base, n) == IF n = 0 THEN COne ELSE mul(PowLoop(base, n - 1), base)

\* pow(b): repeated multiplication for an integer exponent, else polar form
pow(a, b) ==
    IF NBelowEps(b.im) /\ NIsInteger(b.re)
    THEN LET n == b.re.n
         IN  IF n = 0 THEN Ok(COne)
             ELSE IF Abs(n) > MaxExponent THEN Opaque
             ELSE IF n > 0 THEN Ok(PowLoop(a, n))
             ELSE div(COne, PowLoop(a, -n))
    ELSE Opaque

\* re*re + im*im as a raw fraction, for components of the same band
SumSqN(a) == a.re.n * a.re.n * a.im.d * a.im.d + a.im.n * a.im.n * a.re.d * a.re.d
SumSqD(a) == a.re.d * a.re.d * a.im.d * a.im.d

\* abs(): Math.hypot(re, im) is exact when the sum of squares is a square
HasHypot(a) ==
    \/ a.re.n = 0 \/ a.im.n = 0 \/ a.re.k # a.im.k
    \/ /\ Abs(a.re.n) <= 100 /\ a.re.d <= 100
       /\ Abs(a.im.n) <= 100 /\ a.im.d <= 100
       /\ LET g == GCD(SumSqN(a), SumSqD(a))
          IN  IsSquare(SumSqN(a) \div g) /\ IsSquare(SumSqD(a) \div g)

Hypot(a) ==
    IF a.re.n = 0 THEN NAbs(a.im)
    ELSE IF a.im.n = 0 THEN NAbs(a.re)
    ELSE IF a.re.k > a.im.k THEN NAbs(a.re)
    ELSE IF a.im.k > a.re.k THEN NAbs(a.im)
    ELSE LET g == GCD(SumSqN(a), SumSqD(a))
         IN  Num(ISqrt(SumSqN(a) \div g), ISqrt(SumSqD(a) \div g), a.re.k)

\* sqrt(): the principal branch
sqrt(a) ==
    IF ~HasHypot(a) THEN Opaque
    ELSE LET r == Hypot(a)
             p == NDiv(NAdd(r, a.re), Whole(2))
             q == NDiv(NSub(r, a.re), Whole(2))
         IN  IF NHasSqrt(p) /\ NHasSqrt(q)
             THEN Ok(Complex(NSqrt(p),
                             IF a.im.n >= 0 THEN NSqrt(q) ELSE NNeg(NSqrt(q))))
             ELSE Opaque

\* root(n): throws for n = 0; the principal root itself is not exact
root(a, n) == IF n = 0 THEN Raise("InvalidRootDegree") ELSE Opaque

-----------------------------------------------------------------------------
(* Parser: OPERATORS, the token classes and the branches of parseToAST     *)

LPAREN == <<"(">>
RPAREN == <<")">>
COMMA  == <<",">>
PLUS   == <<"+">>
MINUS  == <<"-">>
TIMES  == <<"*">>
SLASH  == <<"/">>
POWER  == <<"*", "*">>
CARET  == <<"^">>
UMINUS == <<"u", "-">>

\* the values prev takes besides null, '(', ',', ')' and the operators
PrevNumber == <<"n", "u", "m", "b", "e", "r">>
PrevId == <<"i", "d">>

BinaryOps == {PLUS, MINUS, TIMES, SLASH, POWER, CARET}

\* the keys of OPERATORS
OperatorKeys == BinaryOps \cup {UMINUS}

\* const OPERATORS
OPERATORS(op) ==
    CASE op = PLUS   -> [prec |-> 2, assoc |-> "L", args |-> 2]
      [] op = MINUS  -> [prec |-> 2, assoc |-> "L", args |-> 2]
      [] op = TIMES  -> [prec |-> 3, assoc |-> "L", args |-> 2]
      [] op = SLASH  -> [prec |-> 3, assoc |-> "L", args |-> 2]
      [] op = POWER  -> [prec |-> 5, assoc |-> "R", args |-> 2]
      [] op = CARET  -> [prec |-> 5, assoc |-> "R", args |-> 2]
      [] op = UMINUS -> [prec |-> 6, assoc |-> "R", args |-> 1]

\* A variant that also takes the bare letter i for a number.
isNumberTokenBareImag(tk) == tk = <<"i">> \/ NumberEnd(tk, 1) = Len(tk) + 1

\* /^[0-9]*\.?[0-9]+(?:e[+-]?\d+)?i?$/.test(t)
isNumberToken(tk) == NumberEnd(tk, 1) = Len(tk) + 1

\* /^[A-Za-z_]\w*$/.test(t)
isIdentifier(tk) ==
    Len(tk) >= 1 /\ IsIdentStart(tk[1]) /\ WordRun(tk, 2) = Len(tk) - 1

\* entries of the operator stack and of the RPN queue
ParenMark == [type |-> "paren"]
OpMark(op) == [type |-> "op", op |-> op]
FuncMark(name) == [type |-> "func", name |-> name]
NumberItem(tk) == [type |-> "number", value |-> tk]
VarItem(tk) == [type |-> "var", name |-> tk]

Top(stack) == stack[Len(stack)]
Pop(stack) == SubSeq(stack, 1, Len(stack) - 1)

\* the parser's locals as one record
ParserState(tks, idx, out, stk, pv, e, at) ==
    [tokens |-> tks, i |-> idx, output |-> out, ops |-> stk, prev |-> pv,
     err |-> e, errAt |-> at]

StartState(tks) == ParserState(tks, 1, <<>>, <<>>, None, "", 0)

Throw(st, kind) == [st EXCEPT !.err = kind, !.errAt = st.i]

RECURSIVE PopToParen(_, _)
\* while(ops.length && ops[ops.length-1] !== '(') output.push(ops.pop())
PopToParen(stk, out) ==
    IF stk # <<>> /\ Top(stk) # ParenMark
    THEN PopToParen(Pop(stk), Append(out, Top(stk)))
    ELSE [ops |-> stk, output |-> out]

\* output.push({type:'number', value: t}); prev = 'number'
OnNumber(st) ==
    [st EXCEPT !.output = Append(@, NumberItem(st.tokens[st.i])),
               !.prev = PrevNumber, !.i = @ + 1]

\* an identifier: a function marker when the next token is '(', else a variable
OnIdentifier(st) ==
    LET tk == st.tokens[st.i]
        isCall == st.i + 1 <= Len(st.tokens) /\ st.tokens[st.i + 1] = LPAREN
    IN  IF isCall
        THEN [st EXCEPT !.ops = Append(@, FuncMark(tk)),
                        !.prev = PrevId, !.i = @ + 1]
        ELSE [st EXCEPT !.output = Append(@, VarItem(tk)),
                        !.prev = PrevId, !.i = @ + 1]

\* ',': pop to the left parenthesis; throws when the stack empties
OnComma(st) ==
    LET r == PopToParen(st.ops, st.output)
    IN  IF r.ops = <<>> THEN Throw(st, "UnexpectedComma")
        ELSE [st EXCEPT !.ops = r.ops, !.output = r.output,
                        !.prev = COMMA, !.i = @ + 1]

\* '(': ops.push('(')
OnLParen(st) ==
    [st EXCEPT !.ops = Append(@, ParenMark), !.prev = LPAREN, !.i = @ + 1]

\* A variant of ')' that accepts an empty stack instead of throwing.
OnRParenNoCheck(st) ==
    LET r == PopToParen(st.ops, st.output)
        s1 == IF r.ops = <<>> THEN <<>> ELSE Pop(r.ops)
        isFn == s1 # <<>> /\ Top(s1).type = "func"
    IN  [st EXCEPT !.ops = IF isFn THEN Pop(s1) ELSE s1,
                   !.output = IF isFn THEN Append(r.output, Top(s1))
                              ELSE r.output,
                   !.prev = RPAREN, !.i = @ + 1]

\* ')': pop to the left parenthesis, drop it, and close a pending call
OnRParen(st) ==
    LET r == PopToParen(st.ops, st.output)
    IN  IF r.ops = <<>> THEN Throw(st, "UnbalancedParentheses")
        ELSE LET s1 == Pop(r.ops)
                 isFn == s1 # <<>> /\ Top(s1).type = "func"
             IN  [st EXCEPT !.ops = IF isFn THEN Pop(s1) ELSE s1,
                            !.output = IF isFn THEN Append(r.output, Top(s1))
                                       ELSE r.output,
                            !.prev = RPAREN, !.i = @ + 1]

\* A variant that takes '-' for unary only at the start or after '('.
UnaryPositionNarrow(pv) == pv = None \/ pv = LPAREN

\* prev === null || prev === '(' || prev === ',' || (prev in OPERATORS)
UnaryPosition(pv) ==
    pv = None \/ pv = LPAREN \/ pv = COMMA \/ pv \in OperatorKeys

\* A variant that pops on equal precedence whatever the associativity.
ShouldPopAlways(o1, o2) == o1.prec <= o2.prec

\* (o1.assoc === 'L' && o1.prec <= o2.prec) || (o1.assoc === 'R' && o1.prec < o2.prec)
ShouldPop(o1, o2) ==
    \/ o1.assoc = "L" /\ o1.prec <= o2.prec
    \/ o1.assoc = "R" /\ o1.prec < o2.prec

RECURSIVE PopOperators(_, _, _)
\* the while loop of the operator branch: stops at '(', at a function
\* marker and at the first operator that must stay
PopOperators(o1, stk, out) ==
    IF stk # <<>> /\ Top(stk).type = "op" /\ ShouldPop(o1, OPERATORS(Top(stk).op))
    THEN PopOperators(o1, Pop(stk), Append(out, Top(stk)))
    ELSE [ops |-> stk, output |-> out]

\* an operator token: unary minus by prev, pop by precedence, push
OnOperator(st) ==
    LET tk == st.tokens[st.i]
        op == IF tk = MINUS /\ UnaryPosition(st.prev) THEN UMINUS ELSE tk
        r == PopOperators(OPERATORS(op), st.ops, st.output)
    IN  [st EXCEPT !.ops = Append(r.ops, OpMark(op)), !.output = r.output,
                   !.prev = op, !.i = @ + 1]

\* one iteration of the for loop over the tokens
ScanStep(st) ==
    LET tk == st.tokens[st.i]
    IN  IF isNumberToken(tk) THEN OnNumber(st)
        ELSE IF isIdentifier(tk) THEN OnIdentifier(st)
        ELSE IF tk = COMMA THEN OnComma(st)
        ELSE IF tk = LPAREN THEN OnLParen(st)
        ELSE IF tk = RPAREN THEN OnRParen(st)
        ELSE IF tk \in BinaryOps THEN OnOperator(st)
        ELSE Throw(st, "InvalidToken")

RECURSIVE Drain(_)
\* while(ops.length){ top = ops.pop(); if (top === '(') throw; output.push(top) }
Drain(st) ==
    IF st.ops = <<>> THEN st
    ELSE IF Top(st.ops) = ParenMark
    THEN [Throw(st, "UnbalancedParentheses") EXCEPT !.ops = Pop(@)]
    ELSE Drain([st EXCEPT !.ops = Pop(@), !.output = Append(@, Top(st.ops))])

\* AST nodes
NoAst == [type |-> "none"]
Literal(tk) == [type |-> "literal", value |-> tk]
Variable(tk) == [type |-> "var", name |-> tk]
Call(name, args) == [type |-> "call", name |-> name, args |-> args]
Op(op, args) == [type |-> "op", op |-> op, args |-> args]

ROOT == <<"r", "o", "o", "t">>
CONJ == <<"c", "o", "n", "j">>
SQRT == <<"s", "q", "r", "t">>

\* const arity = (fn === 'root') ? 2 : 1
FuncArity(fn) == IF fn = ROOT THEN 2 ELSE 1

\* the last n entries of the stack, in the order they were pushed
TakeArgs(stack, n) == SubSeq(stack, Len(stack) - n + 1, Len(stack))
DropArgs(stack, n) == SubSeq(stack, 1, Len(stack) - n)

RECURSIVE BuildLoop(_, _, _)
\* for(const tok of output): the value stack of the second pass
BuildLoop(out, j, stack) ==
    IF j > Len(out) THEN [err |-> "", stack |-> stack]
    ELSE LET tok == out[j]
         IN  IF tok.type = "number"
             THEN BuildLoop(out, j + 1, Append(stack, Literal(tok.value)))
             ELSE IF tok.type = "var"
             THEN BuildLoop(out, j + 1, Append(stack, Variable(tok.name)))
             ELSE LET n == IF tok.type = "func" THEN FuncArity(tok.name)
                           ELSE OPERATORS(tok.op).args
                  IN  IF Len(stack) < n
                      THEN [err |-> "InsufficientArguments", stack |-> stack]
                      ELSE BuildLoop(out, j + 1,
                             Append(DropArgs(stack, n),
                                    IF tok.type = "func"
                                    THEN Call(tok.name, TakeArgs(stack, n))
                                    ELSE Op(tok.op, TakeArgs(stack, n))))

\* the second pass: RPN to AST; exactly one root must remain
BuildAST(out) ==
    LET r == BuildLoop(out, 1, <<>>)
    IN  IF r.err # "" THEN [err |-> r.err, ast |-> NoAst]
        ELSE IF Len(r.stack) # 1
        THEN [err |-> "MalformedExpression", ast |-> NoAst]
        ELSE [err |-> "", ast |-> r.stack[1]]

RECURSIVE ScanAll(_)
\* the for loop run to its end or to the first throw
ScanAll(st) ==
    IF st.err # "" \/ st.i > Len(st.tokens) THEN st ELSE ScanAll(ScanStep(st))

\* parseToAST(input) as a function
parseToAST(s) ==
    LET tk == tokenize(s)
    IN  IF ~tk.ok THEN [err |-> "LexicalError", ast |-> NoAst]
        ELSE LET st == ScanAll(StartState(tk.tokens))
                 dr == IF st.err # "" THEN st ELSE Drain(st)
             IN  IF dr.err # "" THEN [err |-> dr.err, ast |-> NoAst]
                 ELSE BuildAST(dr.output)

-----------------------------------------------------------------------------
(* AST utilities: astToLisp and collectVars                                *)

RECURSIVE JoinTight(_)
\* A variant that joins the parts with nothing between them.
JoinTight(parts) ==
    IF parts = <<>> THEN <<>> ELSE parts[1] \o JoinTight(Tail(parts))

RECURSIVE JoinSpace(_)
\* parts.join(' ')
JoinSpace(parts) ==
    IF parts = <<>> THEN <<>>
    ELSE IF Len(parts) = 1 THEN parts[1]
    ELSE parts[1] \o <<" ">> \o JoinSpace(Tail(parts))

RECURSIVE astToLisp(_)
\* literal and variable as their text; (name arg ...) for calls and operators
astToLisp(node) ==
    IF node.type = "literal" THEN node.value
    ELSE IF node.type = "var" THEN node.name
    ELSE IF node.type = "call"
    THEN <<"(">> \o node.name \o <<" ">>
         \o JoinSpace([j \in 1..Len(node.args) |-> astToLisp(node.args[j])])
         \o <<")">>
    ELSE IF node.type = "op"
    THEN <<"(">> \o node.op \o <<" ">>
         \o JoinSpace([j \in 1..Len(node.args) |-> astToLisp(node.args[j])])
         \o <<")">>
    ELSE <<>>

RECURSIVE collectVars(_)
collectVars(node) ==
    IF node.type = "var" THEN {node.name}
    ELSE IF node.type \in {"call", "op"}
    THEN UNION {collectVars(node.args[j]) : j \in 1..Len(node.args)}
    ELSE {}

-----------------------------------------------------------------------------
(* Evaluation: parseComplexLiteral and evaluateAST                         *)

RECURSIVE DigitsVal(_)
\* the value of a run of decimal digits
DigitsVal(ds) ==
    IF ds = <<>> THEN 0
    ELSE 10 * DigitsVal(SubSeq(ds, 1, Len(ds) - 1)) + DigitVal(ds[Len(ds)])

\* Number(text) for a text of the number grammar: mantissa times ten to the
\* exponent.  Exponents of -200 and below land in the tiny band; the model
\* computes powers of ten exactly up to 10^4.
NumberOf(tx) ==
    LET nInt == DigitRun(tx, 1)
        hasDot == nInt + 1 <= Len(tx) /\ tx[nInt + 1] = "."
        nFrac == IF hasDot THEN DigitRun(tx, nInt + 2) ELSE 0
        mEnd == IF hasDot THEN nInt + 2 + nFrac ELSE nInt + 1
        mant == DigitsVal(SubSeq(tx, 1, nInt)) * Pow10(nFrac)
                + DigitsVal(SubSeq(tx, nInt + 2, nInt + 1 + nFrac))
        hasExp == mEnd <= Len(tx) /\ tx[mEnd] = "e"
        minus == hasExp /\ tx[mEnd + 1] = "-"
        eFrom == IF hasExp /\ tx[mEnd + 1] \in {"+", "-"} THEN mEnd + 2 ELSE mEnd + 1
        eAbs == IF hasExp THEN DigitsVal(SubSeq(tx, eFrom, Len(tx))) ELSE 0
    IN  IF nFrac > 4 \/ nInt > 4 THEN OutOfRange
        ELSE IF ~minus
        THEN IF eAbs > 4 THEN (IF mant = 0 THEN Zero ELSE OutOfRange)
             ELSE Num(mant * Pow10(eAbs), Pow10(nFrac), 0)
        ELSE IF eAbs >= 200
        THEN IF eAbs - 200 + nFrac > 4 THEN (IF mant = 0 THEN Zero ELSE OutOfRange)
             ELSE Num(mant, Pow10(nFrac + eAbs - 200), -1)
        ELSE IF eAbs + nFrac > 4 THEN (IF mant = 0 THEN Zero ELSE OutOfRange)
        ELSE Num(mant, Pow10(nFrac + eAbs), 0)

\* the outcome is left to "opaque" when a component left the exact range
Checked(o) ==
    IF o.st = "ok" /\ (IsOutOfRange(o.v.re) \/ IsOutOfRange(o.v.im))
    THEN Opaque ELSE o

\* parseComplexLiteral(token)
parseComplexLiteral(tk) ==
    IF tk # <<>> /\ tk[Len(tk)] = "i"
    THEN LET num == SubSeq(tk, 1, Len(tk) - 1)
         IN  IF num = <<>> \/ num = <<"+">> THEN Ok(Complex(Zero, Whole(1)))
             ELSE IF num = <<"-">> THEN Ok(Complex(Zero, Whole(-1)))
             ELSE IF ~isNumberToken(num) THEN Raise("InvalidLiteral")
             ELSE Checked(Ok(Complex(Zero, NumberOf(num))))
    ELSE IF ~isNumberToken(tk) THEN Raise("InvalidLiteral")
    ELSE Checked(Ok(Complex(NumberOf(tk), Zero)))

\* the first outcome of a sequence that is not a value, or Ok of the values
FirstFailure(outs) ==
    IF \E j \in 1..Len(outs) : outs[j].st # "ok"
    THEN LET j == CHOOSE j \in 1..Len(outs) :
                    /\ outs[j].st # "ok"
                    /\ \A m \in 1..(j - 1) : outs[m].st = "ok"
         IN  outs[j]
    ELSE Ok([j \in 1..Len(outs) |-> outs[j].v])

\* the switch over the function name, the arguments being values
ApplyCall(name, args) ==
    IF name = CONJ THEN Ok(conj(args[1]))
    ELSE IF name = SQRT THEN sqrt(args[1])
    ELSE IF name = ROOT
    THEN IF ~NBelowEps(args[2].im) THEN Raise("NonIntegerRootDegree")
         ELSE root(args[1], NRound(args[2].re))
    ELSE Raise("UnknownFunction")

\* the switch over the binary operator, the operands being values
ApplyOp(op, a, b) ==
    IF op = PLUS THEN Ok(add(a, b))
    ELSE IF op = MINUS THEN Ok(sub(a, b))
    ELSE IF op = TIMES THEN Ok(mul(a, b))
    ELSE IF op = SLASH THEN div(a, b)
    ELSE IF op \in {POWER, CARET} THEN pow(a, b)
    ELSE Raise("UnknownOperator")

RECURSIVE evaluateAST(_, _)
\* evaluateAST(node, env): arguments left to right, the first throw wins
evaluateAST(node, e) ==
    IF node.type = "literal" THEN parseComplexLiteral(node.value)
    ELSE IF node.type = "var"
    THEN IF node.name \in DOMAIN e THEN Ok(e[node.name])
         ELSE Raise("UnboundVariable")
    ELSE LET outs == FirstFailure(
                        [j \in 1..Len(node.args) |-> evaluateAST(node.args[j], e)])
         IN  IF outs.st # "ok" THEN outs
             ELSE IF node.type = "call" THEN Checked(ApplyCall(node.name, outs.v))
             ELSE IF node.op = UMINUS THEN Ok(neg(outs.v[1]))
             ELSE Checked(ApplyOp(node.op, outs.v[1], outs.v[2]))

-----------------------------------------------------------------------------
(* The expressions the model runs                                          *)

\* the longest sequence of tokens enumerated in full
MaxTokens == 4

\* the largest number of binary operators in an enumerated expression tree
MaxOps == 2

SeqsUpTo(S, n) == UNION {[1..m -> S] : m \in 0..n}

TwoTok == <<"2">>
ThreeTok == <<"3">>
ATok == <<"a">>
BTok == <<"b">>
TinyTok == <<"1", "e", "-", "2", "0", "0">>

\* the tokens of the sequences enumerated in full
SeqAlphabet == {TwoTok, ATok, MINUS, TIMES, LPAREN, RPAREN, COMMA}

SeqTexts == {JoinSpace(ts) : ts \in SeqsUpTo(SeqAlphabet, MaxTokens)}

\* the leaves of the enumerated trees, left to right
LeafSeq == <<"2", "3", "4", "5", "6", "7">>

RECURSIVE BinaryTrees(_, _)
\* the trees with exactly k binary operators over the leaves from, from+1, ...
BinaryTrees(k, from) ==
    IF k = 0 THEN {Literal(<<LeafSeq[from]>>)}
    ELSE UNION {
           {Op(o, <<l, r>>) : o \in BinaryOps,
                              l \in BinaryTrees(j, from),
                              r \in BinaryTrees(k - 1 - j, from + j + 1)}
           : j \in 0..(k - 1)}

TreeSet == UNION {BinaryTrees(k, 1) : k \in 0..MaxOps}

\* the operator table as the specification states it: the tighter, the higher
Tightness(op) ==
    IF op \in {POWER, CARET} THEN 3 ELSE IF op \in {TIMES, SLASH} THEN 2 ELSE 1

GroupsRight(op) == op \in {POWER, CARET}

Parens(ts) == <<LPAREN>> \o ts \o <<RPAREN>>

RECURSIVE InfixMin(_)
\* infix tokens of a tree with just the parentheses the table requires
InfixMin(node) ==
    IF node.type = "literal" THEN <<node.value>>
    ELSE IF node.type = "var" THEN <<node.name>>
    ELSE IF node.op = UMINUS
    THEN LET x == node.args[1]
         IN  <<MINUS>> \o (IF x.type = "op" /\ x.op # UMINUS
                           THEN Parens(InfixMin(x)) ELSE InfixMin(x))
    ELSE LET l == node.args[1]
             r == node.args[2]
             lp == /\ l.type = "op" /\ l.op # UMINUS
                   /\ \/ Tightness(l.op) < Tightness(node.op)
                      \/ Tightness(l.op) = Tightness(node.op) /\ GroupsRight(node.op)
             rp == /\ r.type = "op" /\ r.op # UMINUS
                   /\ \/ Tightness(r.op) < Tightness(node.op)
                      \/ Tightness(r.op) = Tightness(node.op) /\ ~GroupsRight(node.op)
         IN  (IF lp THEN Parens(InfixMin(l)) ELSE InfixMin(l))
             \o <<node.op>>
             \o (IF rp THEN Parens(InfixMin(r)) ELSE InfixMin(r))

RECURSIVE InfixFull(_)
\* infix tokens of a tree with every operator application parenthesised
InfixFull(node) ==
    IF node.type = "literal" THEN <<node.value>>
    ELSE IF node.type = "var" THEN <<node.name>>
    ELSE IF node.op = UMINUS THEN Parens(<<MINUS>> \o InfixFull(node.args[1]))
    ELSE Parens(InfixFull(node.args[1]) \o <<node.op>> \o InfixFull(node.args[2]))

TreeTexts ==
    {Flatten(InfixMin(tr)) : tr \in TreeSet} \cup {Flatten(InfixFull(tr)) : tr \in TreeSet}

\* expressions written out: the examples of the specification and of the
\* README, unary minus next to power, calls, commas, the literal forms
WrittenTokens ==
    { <<TwoTok, POWER, ThreeTok, POWER, TwoTok>>,
      <<TwoTok, CARET, ThreeTok, CARET, TwoTok>>,
      <<MINUS, TwoTok, PLUS, ThreeTok>>,
      <<TwoTok, TIMES, MINUS, ThreeTok>>,
      <<MINUS, TwoTok, POWER, TwoTok>>,
      <<TwoTok, POWER, MINUS, ThreeTok>>,
      <<TwoTok, POWER, MINUS, ThreeTok, POWER, TwoTok>>,
      <<MINUS, LPAREN, TwoTok, PLUS, ATok, RPAREN, TIMES, ThreeTok>>,
      <<TwoTok, MINUS, MINUS, MINUS, ATok>>,
      <<<<"1">>, SLASH, <<"0">>>>,
      <<<<"1">>, SLASH, TinyTok>>,
      <<<<"1">>, SLASH, LPAREN, TinyTok, PLUS, <<"2", "i">>, RPAREN>>,
      <<<<"1">>, SLASH, LPAREN, ATok, MINUS, ATok, RPAREN>>,
      <<ATok, SLASH, BTok>>,
      <<ATok, SLASH, LPAREN, BTok, TIMES, BTok, RPAREN>>,
      <<TwoTok, PLUS, <<"1">>, SLASH, <<"0">>, PLUS, ATok>>,
      <<LPAREN, ThreeTok, PLUS, <<"2", "i">>, RPAREN, TIMES,
        LPAREN, <<"1">>, MINUS, <<"4", "i">>, RPAREN>>,
      <<LPAREN, ATok, PLUS, BTok, RPAREN, TIMES, CONJ, LPAREN, <<"c">>, RPAREN>>,
      <<CONJ, LPAREN, ThreeTok, PLUS, <<"4", "i">>, RPAREN>>,
      <<SQRT, LPAREN, MINUS, <<"4">>, RPAREN>>,
      <<ROOT, LPAREN, <<"8">>, COMMA, ThreeTok, RPAREN>>,
      <<ROOT, LPAREN, <<"8">>, COMMA, MINUS, <<"0">>, RPAREN>>,
      <<ROOT, LPAREN, ATok, PLUS, TwoTok, COMMA, <<"2", "i">>, RPAREN>>,
      <<ROOT, LPAREN, TwoTok, RPAREN>>,
      <<CONJ, LPAREN, TwoTok, COMMA, ThreeTok, RPAREN>>,
      <<<<"f">>, LPAREN, TwoTok, RPAREN>>,
      <<SQRT, LPAREN, CONJ, LPAREN, TwoTok, PLUS, ATok, RPAREN, RPAREN>>,
      <<TwoTok, TIMES, CONJ, LPAREN, ATok, TIMES, ATok, RPAREN, PLUS, ThreeTok>>,
      <<ATok, TIMES, CONJ, LPAREN, ATok, TIMES, ATok, RPAREN>>,
      <<ROOT, LPAREN, TwoTok, PLUS, ThreeTok, COMMA, TwoTok, RPAREN>>,
      <<<<"f">>, LPAREN, TwoTok, SLASH, ATok, RPAREN>>,
      <<CONJ, LPAREN, ATok, RPAREN>>,
      <<ATok, PLUS, LPAREN, BTok, TIMES, TwoTok, RPAREN>>,
      <<ATok, MINUS, LPAREN, BTok, PLUS, TwoTok, RPAREN>>,
      <<TwoTok, COMMA, ThreeTok>>,
      <<LPAREN, TwoTok, COMMA, ThreeTok, RPAREN, PLUS>>,
      <<LPAREN, TwoTok, COMMA, ThreeTok, RPAREN, TIMES, LPAREN, RPAREN>>,
      <<ROOT, LPAREN, LPAREN, <<"8">>, COMMA, ThreeTok, RPAREN, RPAREN>>,
      <<TwoTok, PLUS, LPAREN, ThreeTok>>,
      <<TwoTok, PLUS, ThreeTok, RPAREN, RPAREN>>,
      <<CONJ, LPAREN, LPAREN, ATok, RPAREN>>,
      <<<<"i">>>>,
      <<MINUS, <<"i">>>>,
      <<<<"2", "i">>, PLUS, <<"i">>>>,
      <<<<"i">>, LPAREN, TwoTok, RPAREN>>,
      <<TwoTok, TIMES, <<"i">>, LPAREN, <<"i">>, RPAREN>>,
      <<<<"2", ".", "5", "i">>, PLUS, <<".", "5">>>>,
      <<<<"1", "e", "3">>, TIMES, <<"i">>>> }

WrittenTexts ==
    {Flatten(ts) : ts \in WrittenTokens}
    \cup { <<"2", " ", "+", "\t", "3">>, <<"2", "#", "3">>, <<"2", ".">>,
           <<"a", "_", "1", "*", "_">> }

SpecInputs == SeqTexts \cup TreeTexts \cup WrittenTexts

\* the values a variable is bound to
EnvValues ==
    { Complex(Zero, Zero),
      Complex(Whole(2), Whole(1)),
      Complex(Whole(-3), Zero) }

EmptyEnv == [x \in {} |-> Complex(Zero, Zero)]

\* the environments for a set of variables: every variable bound, or none
Envs(names) == [names -> EnvValues] \cup {EmptyEnv}

-----------------------------------------------------------------------------
(* The run of one expression: parseToAST step by step, then evaluateAST,   *)
(* or astToLisp and a second parseToAST of the printed text                *)

NoValue == [st |-> "none", v |-> None, kind |-> ""]

Cur == ParserState(tokens, i, output, ops, prev, err, errAt)

Commit(st) ==
    /\ tokens' = st.tokens
    /\ i' = st.i
    /\ output' = st.output
    /\ ops' = st.ops
    /\ prev' = st.prev
    /\ err' = st.err
    /\ errAt' = st.errAt

EqIdle ==
    /\ ast1 = NoAst /\ ast2 = NoAst /\ tries = 0 /\ t = 0
    /\ log = <<>> /\ eq = "idle"

Init ==
    /\ input \in SpecInputs
    /\ pc = "start"
    /\ tokens = <<>> /\ i = 1 /\ output = <<>> /\ ops = <<>> /\ prev = None
    /\ err = "" /\ errAt = 0
    /\ ast = NoAst /\ first = NoAst
    /\ env = EmptyEnv /\ value = NoValue
    /\ EqIdle

\* const tokens = tokenize(input)
Tokenize ==
    /\ pc = "start"
    /\ LET r == tokenize(input)
       IN  /\ tokens' = r.tokens
           /\ err' = IF r.ok THEN "" ELSE "LexicalError"
           /\ pc' = IF r.ok THEN "scan" ELSE "failed"
    /\ UNCHANGED <<input, i, output, ops, prev, errAt, ast, first, env, value>>
    /\ UNCHANGED eqVars

Scanning == pc = "scan" /\ i <= Len(tokens)

ScanRest == UNCHANGED <<input, ast, first, env, value>> /\ UNCHANGED eqVars

\* one iteration of the for loop, which ends the run when it throws
Iterate ==
    /\ Commit(ScanStep(Cur))
    /\ pc' = IF ScanStep(Cur).err # "" THEN "failed" ELSE "scan"
    /\ ScanRest

ScanNumber ==
    /\ Scanning /\ isNumberToken(tokens[i])
    /\ Iterate

ScanIdentifier ==
    /\ Scanning /\ ~isNumberToken(tokens[i]) /\ isIdentifier(tokens[i])
    /\ Iterate

ScanComma ==
    /\ Scanning /\ tokens[i] = COMMA
    /\ Iterate

ScanLParen ==
    /\ Scanning /\ tokens[i] = LPAREN
    /\ Iterate

ScanRParen ==
    /\ Scanning /\ tokens[i] = RPAREN
    /\ Iterate

ScanOperator ==
    /\ Scanning /\ tokens[i] \in BinaryOps
    /\ Iterate

\* the loop that empties the operator stack after the last token
DrainOps ==
    /\ pc = "scan" /\ i > Len(tokens)
    /\ Commit(Drain(Cur))
    /\ pc' = IF Drain(Cur).err # "" THEN "failed" ELSE "build"
    /\ ScanRest

\* the second pass and the return of parseToAST
Build ==
    /\ pc = "build"
    /\ LET r == BuildAST(output)
       IN  /\ ast' = r.ast
           /\ err' = r.err
           /\ pc' = IF r.err # "" THEN "failed" ELSE "parsed"
    /\ UNCHANGED <<input, tokens, i, output, ops, prev, errAt, first, env, value>>
    /\ UNCHANGED eqVars

\* evaluateAST(ast, env) for an environment of the caller
Evaluate ==
    /\ pc = "parsed"
    /\ \E e \in Envs(collectVars(ast)) :
         /\ evaluateAST(ast, e).st # "opaque"
         /\ env' = e
         /\ value' = evaluateAST(ast, e)
    /\ pc' = "evaluated"
    /\ UNCHANGED <<input, first>> /\ UNCHANGED parserVars /\ UNCHANGED eqVars

\* astToLisp(ast), and the printed text handed to parseToAST again
Render ==
    /\ pc = "parsed" /\ first = NoAst
    /\ first' = ast
    /\ input' = astToLisp(ast)
    /\ pc' = "start"
    /\ tokens' = <<>> /\ i' = 1 /\ output' = <<>> /\ ops' = <<>> /\ prev' = None
    /\ err' = "" /\ errAt' = 0 /\ ast' = NoAst
    /\ UNCHANGED <<env, value>> /\ UNCHANGED eqVars

Next ==
    \/ Tokenize
    \/ ScanNumber
    \/ ScanIdentifier
    \/ ScanComma
    \/ ScanLParen
    \/ ScanRParen
    \/ ScanOperator
    \/ DrainOps
    \/ Build
    \/ Evaluate
    \/ Render

Spec == Init /\ [][Next]_vars

-----------------------------------------------------------------------------
(* tokenize alone, on every short text over an alphabet with a member of   *)
(* each character class of TOKEN_REGEX and one character outside them all  *)

\* the longest text enumerated in full
MaxChars == 3

CharAlphabet ==
    {"2", "a", "e", "i", ".", "+", "-", "*", "(", ",", "^", " ", "_", "#"}

InitTok ==
    /\ input \in SeqsUpTo(CharAlphabet, MaxChars)
    /\ pc = "start"
    /\ tokens = <<>> /\ i = 1 /\ output = <<>> /\ ops = <<>> /\ prev = None
    /\ err = "" /\ errAt = 0
    /\ ast = NoAst /\ first = NoAst
    /\ env = EmptyEnv /\ value = NoValue
    /\ EqIdle

NextTok == Tokenize

SpecTok == InitTok /\ [][NextTok]_vars

-----------------------------------------------------------------------------
(* expressionsEqual(ast1, ast2, tries), one round of the loop per step     *)

\* the largest trial budget
MaxTries == 2

\* the most rounds of one call the model follows
MaxRounds == 4

\* the trees of 1/(a-a) and of the other expressions compared
OverAMinusA ==
    Op(SLASH, <<Literal(<<"1">>),
                Op(MINUS, <<Variable(ATok), Variable(ATok)>>)>>)

EqAsts ==
    { Variable(ATok),
      Call(CONJ, <<Variable(ATok)>>),
      Op(PLUS, <<Variable(ATok), Variable(ATok)>>),
      Op(TIMES, <<Literal(TwoTok), Variable(ATok)>>),
      Op(TIMES, <<Variable(ATok), Variable(BTok)>>),
      Op(TIMES, <<Variable(BTok), Variable(ATok)>>),
      Op(SLASH, <<Literal(<<"1">>), Variable(ATok)>>),
      Op(SLASH, <<Variable(ATok), Variable(ATok)>>),
      Literal(<<"1">>),
      OverAMinusA,
      Op(SLASH, <<Literal(<<"1">>), Literal(<<"0">>)>>),
      Literal(TwoTok) }

\* const vars = new Set([...collectVars(ast1), ...collectVars(ast2)])
TrialVars == collectVars(ast1) \cup collectVars(ast2)

\* the environments a round can draw
TrialEnvs == [TrialVars -> EnvValues]

\* the try block: the first evaluation that throws ends it
TryRound(e) ==
    LET r1 == evaluateAST(ast1, e)
        r2 == evaluateAST(ast2, e)
    IN  IF r1.st # "ok" THEN [st |-> r1.st, kind |-> r1.kind, same |-> FALSE]
        ELSE IF r2.st # "ok" THEN [st |-> r2.st, kind |-> r2.kind, same |-> FALSE]
        ELSE [st |-> "ok", kind |-> "", same |-> eq_(r1.v, r2.v)]

\* A variant of the catch block that leaves t as it is.
AfterCatchKeep(tt) == tt

\* t--
AfterCatch(tt) == tt - 1

\* A variant that never rethrows.
PropagatesNever(tt) == FALSE

\* if (t<0) throw e
Propagates(tt) == tt < 0

InitEq ==
    /\ ast1 \in EqAsts /\ ast2 \in EqAsts
    /\ tries \in -1..MaxTries
    /\ t = 0 /\ log = <<>> /\ eq = "running"
    /\ pc = "loop"
    /\ input = <<>>
    /\ tokens = <<>> /\ i = 1 /\ output = <<>> /\ ops = <<>> /\ prev = None
    /\ err = "" /\ errAt = 0
    /\ ast = NoAst /\ first = NoAst
    /\ env = EmptyEnv /\ value = NoValue

EqRest ==
    UNCHANGED <<input, tokens, i, output, ops, prev, errAt, ast, first,
                ast1, ast2, tries>>

\* the loop test holds; the round draws an environment and runs the try block
Trial ==
    /\ pc = "loop" /\ t < tries /\ Len(log) < MaxRounds
    /\ \E e \in TrialEnvs :
         /\ TryRound(e).st # "opaque"
         /\ env' = e
         /\ value' = TryRound(e)
    /\ pc' = "round"
    /\ UNCHANGED <<t, log, eq, err>>
    /\ EqRest

\* both evaluations succeeded and r1.eq(r2, tol): t++
RoundAgree ==
    /\ pc = "round" /\ value.st = "ok" /\ value.same
    /\ t' = t + 1
    /\ log' = Append(log, "agree")
    /\ pc' = "loop"
    /\ UNCHANGED <<env, value, eq, err>>
    /\ EqRest

\* both evaluations succeeded and !r1.eq(r2, tol): return false
RoundDiffer ==
    /\ pc = "round" /\ value.st = "ok" /\ ~value.same
    /\ log' = Append(log, "differ")
    /\ eq' = "false"
    /\ pc' = "done"
    /\ UNCHANGED <<env, value, t, err>>
    /\ EqRest

\* an evaluation threw: t--, no rethrow, continue (and the loop's t++)
RoundErrorRetry ==
    /\ pc = "round" /\ value.st = "err"
    /\ ~Propagates(AfterCatch(t))
    /\ t' = AfterCatch(t) + 1
    /\ log' = Append(log, "error")
    /\ pc' = "loop"
    /\ UNCHANGED <<env, value, eq, err>>
    /\ EqRest

\* an evaluation threw: t--, and the error is thrown on to the caller
RoundErrorThrow ==
    /\ pc = "round" /\ value.st = "err"
    /\ Propagates(AfterCatch(t))
    /\ t' = AfterCatch(t)
    /\ log' = Append(log, "error")
    /\ err' = value.kind
    /\ eq' = "raised"
    /\ pc' = "done"
    /\ UNCHANGED <<env, value>>
    /\ EqRest

\* the loop test fails: return true
ReturnTrue ==
    /\ pc = "loop" /\ ~(t < tries)
    /\ eq' = "true"
    /\ pc' = "done"
    /\ UNCHANGED <<env, value, t, log, err>>
    /\ EqRest

NextEq ==
    \/ Trial
    \/ RoundAgree
    \/ RoundDiffer
    \/ RoundErrorRetry
    \/ RoundErrorThrow
    \/ ReturnTrue

SpecEq == InitEq /\ [][NextEq]_vars

-----------------------------------------------------------------------------
(* The grammar the specification states, as a precedence-climbing reader:  *)
(* the tree an expression of literals, variables, parentheses, binary      *)
(* operators and (when un holds) prefix minus stands for                   *)

RefFail == [ok |-> FALSE, node |-> NoAst, pos |-> 0]

RECURSIVE RefAtom(_, _, _), RefClimb(_, _, _, _, _), RefExpr(_, _, _, _)

RefAtom(tks, p, un) ==
    IF p > Len(tks) THEN RefFail
    ELSE IF isNumberToken(tks[p])
    THEN [ok |-> TRUE, node |-> Literal(tks[p]), pos |-> p + 1]
    ELSE IF isIdentifier(tks[p])
    THEN IF p + 1 <= Len(tks) /\ tks[p + 1] = LPAREN THEN RefFail
         ELSE [ok |-> TRUE, node |-> Variable(tks[p]), pos |-> p + 1]
    ELSE IF tks[p] = LPAREN
    THEN LET r == RefExpr(tks, p + 1, 1, un)
         IN  IF r.ok /\ r.pos <= Len(tks) /\ tks[r.pos] = RPAREN
             THEN [r EXCEPT !.pos = @ + 1] ELSE RefFail
    ELSE IF un /\ tks[p] = MINUS
    THEN LET r == RefAtom(tks, p + 1, un)
         IN  IF r.ok THEN [r EXCEPT !.node = Op(UMINUS, <<r.node>>)] ELSE RefFail
    ELSE RefFail

RefClimb(tks, lhs, p, least, un) ==
    IF p <= Len(tks) /\ tks[p] \in BinaryOps /\ Tightness(tks[p]) >= least
    THEN LET r == RefExpr(tks, p + 1,
                          IF GroupsRight(tks[p]) THEN Tightness(tks[p])
                          ELSE Tightness(tks[p]) + 1, un)
         IN  IF r.ok THEN RefClimb(tks, Op(tks[p], <<lhs, r.node>>), r.pos, least, un)
             ELSE RefFail
    ELSE [ok |-> TRUE, node |-> lhs, pos |-> p]

RefExpr(tks, p, least, un) ==
    LET a == RefAtom(tks, p, un)
    IN  IF a.ok THEN RefClimb(tks, a.node, a.pos, least, un) ELSE RefFail

RefParse(tks, un) ==
    LET r == RefExpr(tks, 1, 1, un)
    IN  IF r.ok /\ r.pos = Len(tks) + 1 THEN r ELSE RefFail

RECURSIVE Subnodes(_)
\* a tree's nodes
Subnodes(node) ==
    {node} \cup
    (IF node.type \in {"call", "op"}
     THEN UNION {Subnodes(node.args[j]) : j \in 1..Len(node.args)}
     ELSE {})

Returned == pc \in {"parsed", "evaluated"}

RealValue(n) == Ok(Complex(Whole(n), Zero))

-----------------------------------------------------------------------------
(* C1: for every expression of literals, variables, parentheses and the    *)
(* binary operators + - * / ** ^, parseToAST returns the tree the operator *)
(* table dictates: ** and ^ bind tighter than * and /, these tighter than  *)
(* + and -; equal precedence groups to the left for + - * / and to the     *)
(* right for ** and ^; parentheses override both.  2+3*4 evaluates to 14,  *)
(* (2+3)*4 to 20 and 2**3**2 to 512.                                       *)
C1_Precedence ==
    /\ LET r == RefParse(tokens, FALSE)
       IN  r.ok => /\ pc # "failed"
                   /\ Returned => ast = r.node
    /\ pc = "evaluated" =>
         /\ tokens = <<<<"2">>, PLUS, <<"3">>, TIMES, <<"4">>>>
              => value = RealValue(14)
         /\ tokens = <<LPAREN, <<"2">>, PLUS, <<"3">>, RPAREN, TIMES, <<"4">>>>
              => value = RealValue(20)
         /\ tokens = <<TwoTok, POWER, ThreeTok, POWER, TwoTok>>
              => value = RealValue(512)

C1_Witness ==
    /\ pc = "evaluated"
    /\ tokens = <<TwoTok, POWER, ThreeTok, POWER, TwoTok>>
    /\ ast = Op(POWER, <<Literal(TwoTok), Op(POWER, <<Literal(ThreeTok), Literal(TwoTok)>>)>>)
    /\ value = RealValue(512)

\* the token before position p puts a '-' at p in prefix position
PrefixPosition(tks, p) ==
    p = 1 \/ tks[p - 1] \in {LPAREN, COMMA} \cup BinaryOps

(* C2: a '-' token becomes unary negation exactly when it is the first     *)
(* token or follows '(', ',' or an operator; after a number, an identifier *)
(* or ')' it is binary.  Unary negation takes exactly one operand and      *)
(* binds tighter than every binary operator to its right; -2+3 evaluates   *)
(* to 1 and 2*-3 to -6.                                                    *)
C2_UnaryMinus ==
    /\ (pc = "scan" /\ i > 1 /\ tokens[i - 1] = MINUS) =>
         /\ prev = (IF PrefixPosition(tokens, i - 1) THEN UMINUS ELSE MINUS)
         /\ Top(ops) = OpMark(prev)
    /\ Returned =>
         \A nd \in Subnodes(ast) :
            (nd.type = "op" /\ nd.op = UMINUS) => Len(nd.args) = 1
    /\ LET r == RefParse(tokens, TRUE)
       IN  r.ok => /\ pc # "failed"
                   /\ Returned => ast = r.node
    /\ pc = "evaluated" =>
         /\ tokens = <<MINUS, TwoTok, PLUS, ThreeTok>> => value = RealValue(1)
         /\ tokens = <<TwoTok, TIMES, MINUS, ThreeTok>> => value = RealValue(-6)

C2_Witness ==
    /\ pc = "evaluated"
    /\ tokens = <<TwoTok, TIMES, MINUS, ThreeTok>>
    /\ ast = Op(TIMES, <<Literal(TwoTok), Op(UMINUS, <<Literal(ThreeTok)>>)>>)
    /\ value = RealValue(-6)

-----------------------------------------------------------------------------
(* Division                                                                *)

\* the node evaluated is a division whose two operands evaluate without error
DivisionEvaluated ==
    /\ pc = "evaluated"
    /\ ast.type = "op" /\ ast.op = SLASH
    /\ evaluateAST(ast.args[1], env).st = "ok"
    /\ evaluateAST(ast.args[2], env).st = "ok"

Divisor == evaluateAST(ast.args[2], env).v

IsExactZero(z) == z.re.n = 0 /\ z.re.k = 0 /\ z.im.n = 0 /\ z.im.k = 0

(* C3: evaluating a '/' node whose two operands evaluate without error     *)
(* raises DivisionByZero exactly when the divisor's real and imaginary     *)
(* parts are both exactly zero, and otherwise returns the quotient.        *)
C3_DivisionByZeroExactlyAtZero ==
    DivisionEvaluated =>
        IF IsExactZero(Divisor) THEN value = Raise("DivisionByZero")
        ELSE value.st = "ok"

-----------------------------------------------------------------------------
(* Parentheses                                                             *)

RECURSIVE ParenDepth(_, _, _)
\* the '(' minus the ')' among tks[a..b]
ParenDepth(tks, a, b) ==
    IF b < a THEN 0
    ELSE ParenDepth(tks, a, b - 1)
         + (IF tks[b] = LPAREN THEN 1 ELSE IF tks[b] = RPAREN THEN -1 ELSE 0)

\* no ')' among the first n tokens comes without an earlier unmatched '('
NeverNegative(tks, n) == \A k \in 1..n : ParenDepth(tks, 1, k) >= 0

Balanced(tks) ==
    NeverNegative(tks, Len(tks)) /\ ParenDepth(tks, 1, Len(tks)) = 0

OpenMarks(stk) == Cardinality({j \in 1..Len(stk) : stk[j] = ParenMark})

(* C7: parseToAST never returns an AST for a token sequence whose          *)
(* parentheses are unbalanced.  While scanning, the operator stack holds   *)
(* one '(' marker per '(' not yet matched; a ')' that finds none raises    *)
(* UnbalancedParentheses at that token, a '(' left after the last token    *)
(* raises UnbalancedParentheses, and that error arises in no other way.    *)
C7_BalancedParentheses ==
    /\ pc \in {"build", "parsed", "evaluated"} => Balanced(tokens)
    /\ pc = "scan" =>
         /\ NeverNegative(tokens, i - 1)
         /\ OpenMarks(ops) = ParenDepth(tokens, 1, i - 1)
    /\ (pc = "failed" /\ err # "LexicalError" /\ errAt \in 1..Len(tokens)
          /\ tokens[errAt] = RPAREN) =>
         /\ err = "UnbalancedParentheses"
         /\ ParenDepth(tokens, 1, errAt - 1) = 0
    /\ (pc = "failed" /\ errAt = Len(tokens) + 1) =>
         /\ err = "UnbalancedParentheses"
         /\ ParenDepth(tokens, 1, Len(tokens)) > 0
    /\ (pc = "failed" /\ err = "UnbalancedParentheses") =>
         \/ errAt = Len(tokens) + 1
         \/ errAt \in 1..Len(tokens) /\ tokens[errAt] = RPAREN

C7_Witness ==
    /\ pc = "failed" /\ err = "UnbalancedParentheses"
    /\ errAt \in 1..Len(tokens) /\ tokens[errAt] = RPAREN
    /\ \E q \in 1..(errAt - 1) : tokens[q] = LPAREN
    /\ ParenDepth(tokens, 1, errAt - 1) = 0

-----------------------------------------------------------------------------
(* Commas                                                                  *)

\* the '(' at q is open at position p
Encloses(tks, q, p) ==
    /\ q < p /\ tks[q] = LPAREN
    /\ \A r \in q..(p - 1) : ParenDepth(tks, q, r) >= 1

\* the '(' at q opens the arguments of a function call
OpensCall(tks, q) == q > 1 /\ isIdentifier(tks[q - 1])

\* the comma at p lies outside the argument parentheses of every call
OutsideEveryCall(tks, p) ==
    /\ tks[p] = COMMA
    /\ \A q \in 1..(p - 1) : Encloses(tks, q, p) => ~OpensCall(tks, q)

(* C8: parseToAST never returns an AST for an input with a comma that is   *)
(* outside the argument parentheses of every function call.                *)
C8_CommaOutsideCall ==
    (\E p \in 1..Len(tokens) : OutsideEveryCall(tokens, p)) => ~Returned

-----------------------------------------------------------------------------
(* Printing and reading back                                               *)

\* the second parseToAST, of the text astToLisp printed, has ended
ReadBack == first # NoAst /\ pc \in {"parsed", "evaluated", "failed"}

Compound(node) == node.type \in {"op", "call"}

RECURSIVE PrintsReadable(_)
\* literals and variables; + * / ** ^ applied to two such trees unless the
\* left is a variable and the right is compound; a one-argument call whose
\* argument is compound
PrintsReadable(node) ==
    IF node.type \in {"literal", "var"} THEN TRUE
    ELSE IF node.type = "op"
    THEN /\ node.op \in {PLUS, TIMES, SLASH, POWER, CARET}
         /\ PrintsReadable(node.args[1])
         /\ PrintsReadable(node.args[2])
         /\ ~(node.args[1].type = "var" /\ Compound(node.args[2]))
    ELSE /\ Len(node.args) = 1
         /\ Compound(node.args[1])
         /\ PrintsReadable(node.args[1])

-----------------------------------------------------------------------------
(* The tokenizer's domain                                                  *)

\* the characters the specification lists
ListedChar(c) ==
    \/ IsDigit(c) \/ c \in LetterChars \/ c = "."
    \/ c \in {"+", "-", "*", "/", "(", ")", ",", "^"}
    \/ IsSpace(c)

Tokenized == pc # "start"

(* C10 as stated: tokenize never raises LexicalError on a string made only *)
(* of digits, letters, '.', + - * / ( ) , ^ and whitespace, and raises it  *)
(* on every string with any other character.                               *)
C10_TotalOnListedChars ==
    Tokenized =>
        ((\A k \in 1..Len(input) : ListedChar(input[k])) <=> pc # "failed")

(* C10 amended: tokenize returns exactly when every character is a digit,  *)
(* an ASCII letter, '_', one of + - * / ( ) , ^, whitespace, or a '.'      *)
(* directly followed by a digit; otherwise it raises LexicalError.  The    *)
(* tokens returned spell the input without its whitespace.                 *)
C10_TokenizeTotality ==
    Tokenized =>
        /\ pc # "failed" <=>
              \A k \in 1..Len(input) :
                 /\ ListedChar(input[k]) \/ input[k] = "_"
                 /\ input[k] = "." => (k < Len(input) /\ IsDigit(input[k + 1]))
        /\ pc = "failed" => err = "LexicalError"
        /\ pc # "failed" => Flatten(tokens) = Cleaned(input)

C10_Witness ==
    /\ pc = "failed" /\ err = "LexicalError"
    /\ input = <<"2", ".", "+">>

-----------------------------------------------------------------------------
(* The rounds of expressionsEqual                                          *)

RECURSIVE Count(_, _)
\* the rounds of a log with the outcome o
Count(lg, o) ==
    IF lg = <<>> THEN 0
    ELSE Count(Tail(lg), o) + (IF Head(lg) = o THEN 1 ELSE 0)

LastRound == log[Len(log)]

\* env is the environment of the last round of the log
RoundLogged == log # <<>> /\ pc # "round"

\* both ASTs evaluate without error under the environment e
BothEvaluate(e) ==
    evaluateAST(ast1, e).st = "ok" /\ evaluateAST(ast2, e).st = "ok"

\* the two results are at least the tolerance apart in one part
Differ(e) ==
    LET v1 == evaluateAST(ast1, e).v
        v2 == evaluateAST(ast2, e).v
    IN  ~BelowTol(NSub(v1.re, v2.re)) \/ ~BelowTol(NSub(v1.im, v2.im))

(* C4: expressionsEqual returns false at the first round in which both     *)
(* ASTs evaluate and the results differ by at least the tolerance in the   *)
(* real or the imaginary part, and runs no round after it; it returns true *)
(* only after trialCount rounds that each evaluated both ASTs and agreed,  *)
(* error rounds not being counted.                                         *)
C4_ShortCircuit ==
    /\ RoundLogged =>
         /\ LastRound = "differ" <=> (BothEvaluate(env) /\ Differ(env))
         /\ LastRound = "agree" <=> (BothEvaluate(env) /\ ~Differ(env))
    /\ log # <<>> => (LastRound = "differ" <=> eq = "false")
    /\ log = <<>> => eq # "false"
    /\ \A k \in 1..(Len(log) - 1) : log[k] # "differ"
    /\ eq = "true" =>
         /\ Count(log, "agree") >= tries
         /\ tries >= 0 => Count(log, "agree") = tries
         /\ Count(log, "differ") = 0

C4_Witness ==
    /\ eq = "false"
    /\ log = <<"agree", "differ">>
    /\ tries = MaxTries

Degenerate == \A e \in TrialEnvs : ~BothEvaluate(e)

-----------------------------------------------------------------------------
(* Literals and the bare letter i                                          *)

ITok == <<"i">>

HasDigit(tx) == \E k \in 1..Len(tx) : IsDigit(tx[k])

\* the coefficient that parseComplexLiteral reads in front of a final i
Coefficient(tx) == SubSeq(tx, 1, Len(tx) - 1)

\* parseComplexLiteral would take its unit-imaginary branch on the text
UnitImaginary(tx) ==
    /\ tx # <<>> /\ tx[Len(tx)] = "i"
    /\ Coefficient(tx) \in {<<>>, <<"+">>, <<"-">>}

LiteralsOf(node) == {nd \in Subnodes(node) : nd.type = "literal"}

(* C11: every Literal node of an AST parseToAST returns holds text with at *)
(* least one digit, so the unit-imaginary branch of parseComplexLiteral is *)
(* never taken on it; a bare i token is never a literal: it becomes the    *)
(* variable i, or the function marker i when '(' follows, and so belongs   *)
(* to the variables collectVars hands to expressionsEqual; evaluating the  *)
(* expression i under an environment without i raises UnboundVariable.     *)
C11_BareImaginaryIsVariable ==
    /\ Returned =>
         /\ \A nd \in LiteralsOf(ast) :
               /\ HasDigit(nd.value)
               /\ nd.value # ITok
               /\ ~UnitImaginary(nd.value)
         /\ \A k \in 1..Len(tokens) :
               (tokens[k] = ITok /\ ~(k < Len(tokens) /\ tokens[k + 1] = LPAREN))
                  => /\ Variable(ITok) \in Subnodes(ast)
                     /\ ITok \in collectVars(ast)
         /\ \A k \in 1..(Len(tokens) - 1) :
               (tokens[k] = ITok /\ tokens[k + 1] = LPAREN)
                  => \E nd \in Subnodes(ast) : nd.type = "call" /\ nd.name = ITok
    /\ (pc = "scan" /\ i > 1 /\ tokens[i - 1] = ITok) =>
         IF i <= Len(tokens) /\ tokens[i] = LPAREN
         THEN ops # <<>> /\ Top(ops) = FuncMark(ITok)
         ELSE output # <<>> /\ Top(output) = VarItem(ITok)
    /\ pc \in {"scan", "build"} =>
         \A j \in 1..Len(output) :
            output[j].type = "number" => HasDigit(output[j].value)
    /\ (pc = "evaluated" /\ tokens = <<ITok>>) =>
         /\ ast = Variable(ITok)
         /\ IF ITok \in DOMAIN env THEN value = Ok(env[ITok])
            ELSE value = Raise("UnboundVariable")

C11_Witness ==
    /\ pc = "evaluated" /\ tokens = <<ITok>>
    /\ ast = Variable(ITok)
    /\ ITok \notin DOMAIN env
    /\ value = Raise("UnboundVariable")

====
